---- MODULE Spec2Model ----
(***************************************************************************)
(* The indexing pipeline of src/full-script.py: PineconeManager            *)
(* (ensure_index_exists, _wait_for_index_ready, upsert_documents,          *)
(* get_index_stats), the tenacity @retry wrapper around them, and          *)
(* SemanticSearchManager.index_documents, run against a vector store that  *)
(* may fail any call; the construction of the manager in main and          *)
(* SemanticSearchManager.search; chunk_text and load_obsidian_vault of      *)
(* src/pinecone-project/obsidian_loader.py and the file walk of             *)
(* DocumentProcessor.load_documents.                                        *)
(***************************************************************************)
EXTENDS Integers, Sequences, FiniteSets, TLC

\* ---------------------------------------------------------------- bounds
MaxDocs == 3        \* files in the vault / documents handed to upsert_documents
BatchSize == 2      \* config.batch_size, scaled down from 50
Dimension == 2      \* config.dimension, scaled down from 384
MaxPolls == 2       \* polls of _wait_for_index_ready before max_wait elapses
MaxTopK == 2        \* largest top_k a search asks for (5 by default)
MaxTextLen == 8     \* chunk_text: longest text, besides the text of 2500 characters
MaxChunkSize == 4   \* chunk_text: largest chunk_size
MaxOverlap == 3     \* chunk_text: largest overlap
MaxChunks == 10     \* chunk_text: turns of the loop followed
MaxFiles == 3       \* loaders: files found in the vault
MaxBodyLen == 3     \* loaders: longest body of a file
MaxTextLength == 2  \* config.max_text_length, scaled down from 3000
LoaderChunkSize == 2 \* chunk_text's default chunk_size, scaled down from 1000
LoaderOverlap == 1  \* chunk_text's default overlap, scaled down from 200
MaxMetaDocs == 3    \* metadata: documents handed to the code that prepares vectors
MaxDocText == 3     \* metadata: longest text of a document
MetadataTextLimit == 2 \* doc.text[:1000], scaled down from 1000

\* ------------------------------------------------------ program constants
MaxAttempts == 3    \* stop_after_attempt(3)
MaxBatchSize == 100 \* Config.__post_init__: self.batch_size > 100

IndexName == "semantic-search-demo"

FileKinds == {"text", "empty", "unreadable"}

StageOrder == <<"Load", "Embed", "EnsureIndex", "Upsert", "Verify">>

DefaultChunkSize == 1000    \* def chunk_text(text, chunk_size=1000, ...
DefaultOverlap == 200       \* ... overlap=200)

\* Mutant of ConstructionOrder: the Pinecone client is made before the model is loaded.
ConstructionOrderClientFirst ==
    <<"DocumentProcessor", "PineconeManager", "EmbeddingGenerator">>

\* SemanticSearchManager.__init__: the order its three components are constructed in.
ConstructionOrder == <<"DocumentProcessor", "EmbeddingGenerator", "PineconeManager">>

VARIABLES
    indexExists,        \* store: pc.has_index(name)
    indexReady,         \* store: describe_index_stats answers for the index
    storeIds,           \* store: ids of the vectors the index holds
    modelDim,           \* length of the vectors the loaded model produces
    index,              \* PineconeManager.index: "None" or the index name
    op,                 \* the top-level call in progress (or the last one)
    pc,                 \* position inside it; "idle" between calls
    attempt,            \* tenacity attempt number of the wrapped function
    result,             \* what the last top-level call gave its caller
    vault,              \* load_documents: md_files, each file by kind, while it runs
    documents,          \* index_documents / upsert_documents: documents
    vectors,            \* upsert_documents: vectors
    total_batches,      \* upsert_documents: total_batches
    successful_batches, \* upsert_documents: successful_batches
    failed_batches,     \* upsert_documents: failed_batches
    i,                  \* upsert_documents: loop variable i
    polls,              \* _wait_for_index_ready: polls made so far
    stage,              \* index_documents: the stage being run
    completed,          \* index_documents: stages that completed successfully
    failedStage,        \* index_documents: the stage that raised, or "none"
    calls,              \* store calls made during the current top-level call
    failTimes,          \* store: how often each batch's upsert fails before it succeeds
    tries,              \* store upsert calls received per batch number
    sends,              \* store upsert calls received per vector id
    okIds,              \* ids whose upsert call succeeded in this call
    sentDims,           \* lengths of the vectors passed to the store's upsert
    sentBatches,        \* the batches passed to the store's upsert, in call order
    upsertResult,       \* what upsert_documents returned in this call, or "none"
    pollOk,             \* the readiness poll succeeded in this call
    absentAtCall,       \* has_index answered False in this call
    timedOut,           \* _wait_for_index_ready raised TimeoutError in this call
    ensureOutcome,      \* how ensure_index_exists ended in this call, or "none"
    prevEnsure,         \* the ensure_index_exists call before that: its creates and outcome
    storeSrc,           \* store: for each id held, the file its vector was made from
    heldAtLoad,         \* index_documents: what the store held of the vault when it was loaded
    built,              \* SemanticSearchManager.__init__: the components constructed
    modelLoad,          \* EmbeddingGenerator._load_model: "none", "ok" or "raised"
    indexed,            \* index_documents has been called on this manager
    searchHits,         \* search: the ids of the matches the store returned
    searchError,        \* search: the exception raised inside its try block, or "none"
    text_len,           \* chunk_text: len(text)
    chunk_size,         \* chunk_text: its parameter chunk_size
    overlap,            \* chunk_text: its parameter overlap
    chunkStart,         \* chunk_text: start
    chunks,             \* chunk_text: chunks, each the slice [lo:hi] of the text
    chunkPc,            \* chunk_text: "loop", "done"; "off" when not called
    loaderKind,         \* which loader walks: "load_documents" or "load_obsidian_vault"
    supported_files,    \* the files found (md_files / supported_files), in walk order
    filePos,            \* place in the list of the file to process next
    vaultDocs,          \* documents / docs: the documents produced so far
    doc_id_counter,     \* load_obsidian_vault: doc_id_counter
    failed_files,       \* load_documents: len(failed_files)
    loaderPc,           \* loader: "walk", "done"; "off" when not called
    env,                \* main: what Config.from_env reads from the environment
    config,             \* main: <<the Config>> once constructed, <<>> before
    cfgPc,              \* main: "from_env", "loaded", or "exited" when Config raised
    metaKind,           \* which code prepares the vectors of a list of documents
    metaDocs,           \* the documents handed to it: text length, embedding or not
    metaVectors,        \* vectors / vectors_to_upsert: the vectors prepared so far
    metaPos,            \* place in the list of the document to prepare next
    metaPc              \* "prepare", "upserted"; "off" when not followed

storeVars == <<indexExists, indexReady, storeIds, storeSrc>>
searchVars == <<searchHits, searchError>>
chunkVars == <<text_len, chunk_size, overlap, chunkStart, chunks, chunkPc>>
loaderVars == <<loaderKind, supported_files, filePos, vaultDocs, doc_id_counter,
                failed_files, loaderPc>>
configVars == <<env, config, cfgPc>>
metaVars == <<metaKind, metaDocs, metaVectors, metaPos, metaPc>>
otherVars == <<configVars, metaVars>>
\* What no step inside a call on the pipeline touches.
quietVars == <<modelDim, built, modelLoad, indexed, searchHits, searchError,
               heldAtLoad, chunkVars, loaderVars, otherVars>>
upsertVars == <<vectors, total_batches, successful_batches, failed_batches, i>>
upsertGhost == <<tries, sends, okIds, sentDims, sentBatches, upsertResult>>
ensureGhost == <<pollOk, absentAtCall, timedOut>>
ensureHist == <<ensureOutcome, prevEnsure>>
ctlVars == <<pc, attempt, result, stage, completed, failedStage>>

pipelineVars ==
        <<indexExists, indexReady, storeIds, modelDim, index, op, pc, attempt,
          result, vault, documents, vectors, total_batches,
          successful_batches, failed_batches, i, polls, stage, completed,
          failedStage, calls, failTimes, tries, sends, okIds, sentDims, sentBatches,
          upsertResult,
          pollOk, absentAtCall, timedOut, ensureOutcome, prevEnsure, storeSrc,
          heldAtLoad, built, modelLoad, indexed, searchHits, searchError>>

vars == <<pipelineVars, chunkVars, loaderVars, otherVars>>

\* ---------------------------------------------------------------- helpers
Min(a, b) == IF a < b THEN a ELSE b

CeilDiv(n, d) == (n + d - 1) \div d

Ids == 1..MaxDocs

NoCalls == [has |-> 0, create |-> 0, poll |-> 0, upsert |-> 0, stats |-> 0,
            query |-> 0]

Bump(c, f) == [c EXCEPT ![f] = @ + 1]

SeqsUpTo(S, n) == UNION {[1..k -> S] : k \in 0..n}

IdsOf(batch) == {batch[k].id : k \in 1..Len(batch)}

NoEnsure == [creates |-> 0, outcome |-> "none"]

SrcsOf(docs) == {docs[k].src : k \in 1..Len(docs)}

\* ------------------------------------------------------------ pure parts
\* Mutant of DocId: the id is numbered on from the vectors the store holds.
DocIdAfterStore(k) == k + Cardinality(storeIds)

\* _process_file: id=f"md_{index + 1}", index being the file's place in the
\* listing of the vault (k = index + 1).
DocId(k) == k

\* DocumentProcessor.load_documents: file number k (0-based k-1) becomes the
\* document md_k when _process_file returns a Document; an empty file and a
\* file that cannot be read give None.
LoadedDocs(v) ==
    LET F[k \in 0..Len(v)] ==
            IF k = 0 THEN <<>>
            ELSE IF v[k] = "text"
                 THEN Append(F[k - 1], [id |-> DocId(k), src |-> k, emb |-> 0])
                 ELSE F[k - 1]
    IN F[Len(v)]

\* EmbeddingGenerator.generate_embeddings: every document gets the model's vector.
Embedded(docs, dim) == [k \in 1..Len(docs) |-> [docs[k] EXCEPT !.emb = dim]]

\* Mutant of PrepareVectors: a document without an embedding is passed on too.
PrepareVectorsKeepAll(docs) ==
    [k \in 1..Len(docs) |->
        [id |-> docs[k].id, src |-> docs[k].src, dim |-> docs[k].emb]]

\* PineconeManager._prepare_vectors: documents without an embedding are skipped,
\* the others are passed on unchanged (no check of the embedding's length);
\* the file a vector comes from travels in its metadata ("filename").
PrepareVectors(docs) ==
    LET F[k \in 0..Len(docs)] ==
            IF k = 0 THEN <<>>
            ELSE IF docs[k].emb = 0
                 THEN F[k - 1]
                 ELSE Append(F[k - 1], [id |-> docs[k].id, src |-> docs[k].src,
                                        dim |-> docs[k].emb])
    IN F[Len(docs)]

\* Mutant of TotalBatches: the partial last batch is not counted.
TotalBatchesFloor(n) == n \div BatchSize

\* total_batches = len(vectors) // batch_size + (1 if len(vectors) % batch_size else 0)
TotalBatches(n) == (n \div BatchSize) + (IF n % BatchSize # 0 THEN 1 ELSE 0)

\* Mutant of BatchAt: the slice runs one vector into the next batch.
BatchAtOverlapping(vs, start) ==
    SubSeq(vs, start + 1, Min(start + BatchSize + 1, Len(vs)))

\* batch = vectors[i:i + batch_size]
BatchAt(vs, start) == SubSeq(vs, start + 1, Min(start + BatchSize, Len(vs)))

\* batch_num = i // batch_size + 1
BatchNum(start) == (start \div BatchSize) + 1

\* index.upsert: a vector takes the place of the one stored under its id, or
\* is added under a new id.
Written(held, batch) ==
    [id \in DOMAIN held \cup IdsOf(batch) |->
        IF id \in IdsOf(batch)
        THEN batch[CHOOSE k \in 1..Len(batch) : batch[k].id = id].src
        ELSE held[id]]

\* What the store holds of a list of documents: "all" when it holds exactly
\* one vector for each of their files and no other vector, "part" when it
\* holds that for some of their files and no other vector.
HeldOf(held, docs) ==
    LET files == {held[id] : id \in DOMAIN held}
    IN IF DOMAIN held = {} THEN "nothing"
       ELSE IF files \subseteq SrcsOf(docs)
               /\ Cardinality(DOMAIN held) = Cardinality(files)
            THEN IF files = SrcsOf(docs) THEN "all" ELSE "part"
            ELSE "other"

\* Mutant of BatchOutcome: the failed call is not caught, so it reaches @retry.
BatchOutcomeRaises(ok) == IF ok THEN "succeeded" ELSE "raised"

\* The try/except around self.index.upsert: a failed call is caught and recorded.
BatchOutcome(ok) == IF ok THEN "succeeded" ELSE "caught"

\* Mutant of UpsertResult: success as soon as one batch went through.
UpsertResultLenient(failed) ==
    IF failed # <<>> /\ successful_batches = 0 THEN "False" ELSE "True"

\* return False if failed_batches else True
UpsertResult(failed) == IF failed # <<>> THEN "False" ELSE "True"

\* Mutant of AfterUpsert: the result of upsert_documents is ignored.
AfterUpsertAlwaysVerify(success) == "Verify"

\* index_documents: "if success:" picks the Verify stage, else return False.
AfterUpsert(success) == IF success = "True" THEN "Verify" ELSE "ReturnFalse"

\* Mutant of PipelineCatch: the exception is passed on to the caller.
PipelineCatchReraise(exc) == exc

\* index_documents: "except Exception as e: ... return False".
PipelineCatch(exc) == "False"

\* ------------------------------------------------------------------ Init
\* A manager not yet constructed, before any call, and an empty index.
PipelineStart ==
    /\ storeIds = {}
    /\ index = "None"
    /\ op = "main"
    /\ pc = "construct"
    /\ attempt = 1
    /\ result = "None"
    /\ vault = <<>>
    /\ documents = <<>>
    /\ vectors = <<>>
    /\ total_batches = 0
    /\ successful_batches = 0
    /\ failed_batches = <<>>
    /\ i = 0
    /\ polls = 0
    /\ stage = "none"
    /\ completed = <<>>
    /\ failedStage = "none"
    /\ calls = NoCalls
    /\ failTimes = [b \in Ids |-> 0]
    /\ tries = [b \in Ids |-> 0]
    /\ sends = [d \in Ids |-> 0]
    /\ okIds = {}
    /\ sentDims = {}
    /\ sentBatches = <<>>
    /\ upsertResult = "none"
    /\ pollOk = FALSE
    /\ absentAtCall = FALSE
    /\ timedOut = FALSE
    /\ ensureOutcome = "none"
    /\ prevEnsure = NoEnsure
    /\ storeSrc = <<>>
    /\ heldAtLoad = "none"
    /\ built = {}
    /\ modelLoad = "none"
    /\ indexed = FALSE
    /\ searchHits = {}
    /\ searchError = "none"

\* chunk_text is not being followed.
ChunkOff ==
    /\ text_len = 0
    /\ chunk_size = 0
    /\ overlap = 0
    /\ chunkStart = 0
    /\ chunks = <<>>
    /\ chunkPc = "off"

\* No loader is being followed.
LoaderOff ==
    /\ loaderKind = "none"
    /\ supported_files = <<>>
    /\ filePos = 0
    /\ vaultDocs = <<>>
    /\ doc_id_counter = 0
    /\ failed_files = 0
    /\ loaderPc = "off"

\* The environment main runs in when it gets as far as constructing the
\* manager: a key, the index's dimension, the batch size, an existing vault.
ValidEnv ==
    [api_key |-> "key", dimension |-> Dimension, batch_size |-> BatchSize,
     vault_exists |-> TRUE]

\* Config.from_env() has returned the Config of that environment.
ConfigLoaded ==
    /\ env = ValidEnv
    /\ config = <<ValidEnv>>
    /\ cfgPc = "loaded"

\* No preparing of vectors is being followed.
MetaOff ==
    /\ metaKind = "none"
    /\ metaDocs = <<>>
    /\ metaVectors = <<>>
    /\ metaPos = 0
    /\ metaPc = "off"

Init ==
    /\ indexExists \in BOOLEAN
    /\ indexReady = indexExists
    /\ modelDim \in {Dimension, Dimension + 1}
    /\ PipelineStart
    /\ ChunkOff
    /\ LoaderOff
    /\ ConfigLoaded
    /\ MetaOff

\* ------------------------------------------------- control-flow fragments
\* tenacity: the wrapped function is called again after an exception.
Retry(entry) ==
    /\ pc' = entry
    /\ attempt' = attempt + 1
    /\ UNCHANGED <<result, stage, completed, failedStage>>

\* An exception leaves the wrapped function for good: index_documents catches
\* it, any other caller receives it.
Escape(exc) ==
    /\ pc' = "idle"
    /\ UNCHANGED <<attempt, stage, completed>>
    /\ IF op = "index_documents"
       THEN result' = PipelineCatch(exc) /\ failedStage' = stage
       ELSE result' = exc /\ failedStage' = failedStage

\* Mutant of AttemptFailed: after the last attempt the call returns None.
AttemptFailedSilent(entry) ==
    IF attempt < MaxAttempts THEN Retry(entry) ELSE Escape("None")

\* tenacity, stop_after_attempt(3) without reraise: RetryError after the last attempt.
AttemptFailed(entry) ==
    IF attempt < MaxAttempts THEN Retry(entry) ELSE Escape("RetryError")

\* A new top-level call: everything local to a call starts afresh.
StartCall(name, entry, stg) ==
    /\ pc = "idle"
    /\ op' = name
    /\ pc' = entry
    /\ attempt' = 1
    /\ result' = "None"
    /\ stage' = stg
    /\ completed' = <<>>
    /\ failedStage' = "none"
    /\ calls' = NoCalls
    /\ vault' = <<>>
    /\ vectors' = <<>>
    /\ total_batches' = 0
    /\ successful_batches' = 0
    /\ failed_batches' = <<>>
    /\ i' = 0
    /\ polls' = 0
    /\ failTimes' = [b \in Ids |-> 0]
    /\ tries' = [b \in Ids |-> 0]
    /\ sends' = [d \in Ids |-> 0]
    /\ okIds' = {}
    /\ pollOk' = FALSE
    /\ absentAtCall' = FALSE
    /\ timedOut' = FALSE
    /\ sentDims' = {}
    /\ sentBatches' = <<>>
    /\ upsertResult' = "none"
    /\ ensureOutcome' = "none"
    /\ prevEnsure' = IF ensureOutcome = "none"
                     THEN prevEnsure
                     ELSE [creates |-> calls.create, outcome |-> ensureOutcome]
    /\ searchHits' = {}
    /\ searchError' = "none"
    /\ heldAtLoad' = "none"
    /\ indexed' = (indexed \/ name = "index_documents")
    /\ UNCHANGED <<storeVars, modelDim, built, modelLoad, index, chunkVars,
                   loaderVars, otherVars>>

\* ------------------------------------------------------------------ main
\* main() is started (again) in a new process: a new SemanticSearchManager is
\* about to be constructed; the store keeps what it holds.
MainStart ==
    /\ pc \in {"idle", "exited"}
    /\ op' = "main"
    /\ pc' = "construct"
    /\ index' = "None"
    /\ built' = {}
    /\ modelLoad' = "none"
    /\ indexed' = FALSE
    /\ attempt' = 1
    /\ result' = "None"
    /\ stage' = "none"
    /\ completed' = <<>>
    /\ failedStage' = "none"
    /\ calls' = NoCalls
    /\ vault' = <<>>
    /\ documents' = <<>>
    /\ vectors' = <<>>
    /\ total_batches' = 0
    /\ successful_batches' = 0
    /\ failed_batches' = <<>>
    /\ i' = 0
    /\ polls' = 0
    /\ failTimes' = [b \in Ids |-> 0]
    /\ tries' = [b \in Ids |-> 0]
    /\ sends' = [d \in Ids |-> 0]
    /\ okIds' = {}
    /\ pollOk' = FALSE
    /\ absentAtCall' = FALSE
    /\ timedOut' = FALSE
    /\ sentDims' = {}
    /\ sentBatches' = <<>>
    /\ upsertResult' = "none"
    /\ ensureOutcome' = "none"
    /\ prevEnsure' = NoEnsure
    /\ searchHits' = {}
    /\ searchError' = "none"
    /\ heldAtLoad' = "none"
    /\ UNCHANGED <<storeVars, modelDim, chunkVars, loaderVars, otherVars>>

\* The components of the order that get constructed: all up to the first one
\* whose constructor raises.
BuiltCount(order, modelOk, clientOk) ==
    LET Ok(c) == /\ (c = "EmbeddingGenerator" => modelOk)
                 /\ (c = "PineconeManager" => clientOk)
        F[k \in 0..Len(order)] ==
            IF k = 0 THEN 0
            ELSE IF F[k - 1] = k - 1 /\ Ok(order[k]) THEN k ELSE F[k - 1]
    IN F[Len(order)]

\* SemanticSearchManager(config) inside main's try block, once
\* Config.from_env() has returned: DocumentProcessor,
\* then EmbeddingGenerator (whose _load_model may raise), then PineconeManager
\* (whose Pinecone(api_key=...) may raise). An exception ends main with 1.
Construct ==
    /\ pc = "construct"
    /\ cfgPc = "loaded"
    /\ \E modelOk \in BOOLEAN, clientOk \in BOOLEAN :
          LET order == ConstructionOrder
              n == BuiltCount(order, modelOk, clientOk)
              tried == {order[k] : k \in 1..Min(n + 1, Len(order))}
          IN /\ built' = {order[k] : k \in 1..n}
             /\ modelLoad' = IF "EmbeddingGenerator" \notin tried THEN "none"
                             ELSE IF modelOk THEN "ok" ELSE "raised"
             /\ pc' = IF n = Len(order) THEN "idle" ELSE "exited"
             /\ result' = IF n = Len(order) THEN "None" ELSE "1"
    /\ UNCHANGED <<storeVars, modelDim, indexed, searchVars, heldAtLoad, chunkVars,
                   loaderVars, otherVars, index, op,
                   attempt, stage,
                   completed, failedStage, vault, documents, upsertVars, polls,
                   calls, failTimes, upsertGhost, ensureGhost, ensureHist>>

\* main: "success = search_manager.index_documents(); if not success: ...
\* return 1", else it goes on and returns 0.
MainExitCode(success) == IF success = "True" THEN 0 ELSE 1

\* ------------------------------------------------------ top-level calls
CallIndexDocuments ==
    /\ StartCall("index_documents", "load", "Load")
    /\ documents' = <<>>

CallEnsureIndexExists ==
    /\ StartCall("ensure_index_exists", "ensure_has", "none")
    /\ documents' = <<>>

\* The caller hands over documents md_1..md_n, each with or without an embedding.
CallUpsertDocuments ==
    /\ StartCall("upsert_documents", "upsert_entry", "none")
    /\ \E n \in 0..MaxDocs :
          \E e \in [1..n -> {0, modelDim}] :
             documents' = [k \in 1..n |-> [id |-> k, src |-> k, emb |-> e[k]]]

CallGetIndexStats ==
    /\ StartCall("get_index_stats", "stats", "none")
    /\ documents' = <<>>

CallSearch ==
    /\ StartCall("search", "search", "none")
    /\ documents' = <<>>

\* ------------------------------------------------------- index_documents
\* Step 1: load_documents. A missing vault path raises; an empty list returns False.
LoadDocuments ==
    /\ pc = "load"
    /\ \E pathExists \in BOOLEAN :
          IF ~pathExists
          THEN /\ Escape("FileNotFoundError")
               /\ UNCHANGED <<vault, documents, heldAtLoad>>
          ELSE \E v \in SeqsUpTo(FileKinds, MaxDocs) :
                  /\ vault' = v
                  /\ documents' = LoadedDocs(v)
                  /\ heldAtLoad' = HeldOf(storeSrc, LoadedDocs(v))
                  /\ IF LoadedDocs(v) = <<>>
                     THEN /\ pc' = "idle"
                          /\ result' = "False"
                          /\ UNCHANGED <<attempt, stage, completed, failedStage>>
                     ELSE /\ pc' = "embed"
                          /\ stage' = "Embed"
                          /\ completed' = Append(completed, "Load")
                          /\ UNCHANGED <<attempt, result, failedStage>>
    /\ UNCHANGED <<storeVars, modelDim, built, modelLoad, indexed, searchVars,
                   chunkVars, loaderVars, otherVars, index, op, upsertVars, polls, calls, failTimes, upsertGhost, ensureGhost,
                   ensureHist>>

\* Step 2: generate_embeddings. model.encode may raise.
GenerateEmbeddings ==
    /\ pc = "embed"
    /\ \E ok \in BOOLEAN :
          IF ok
          THEN /\ documents' = Embedded(documents, modelDim)
               /\ pc' = "ensure_has"
               /\ attempt' = 1
               /\ stage' = "EnsureIndex"
               /\ completed' = Append(completed, "Embed")
               /\ UNCHANGED <<result, failedStage>>
          ELSE /\ Escape("EncodeError")
               /\ UNCHANGED documents
    /\ vault' = <<>>
    /\ UNCHANGED <<storeVars, quietVars, index, op, upsertVars,
                   polls, calls, failTimes, upsertGhost, ensureGhost, ensureHist>>

\* --------------------------------------------------- ensure_index_exists
\* ensure_index_exists returned self.index to its caller.
EnsureReturned ==
    /\ index' = IndexName
    /\ ensureOutcome' = IndexName
    /\ prevEnsure' = prevEnsure
    /\ IF op = "index_documents"
       THEN /\ pc' = "upsert_entry"
            /\ attempt' = 1
            /\ stage' = "Upsert"
            /\ completed' = Append(completed, "EnsureIndex")
            /\ UNCHANGED <<result, failedStage>>
       ELSE /\ pc' = "idle"
            /\ result' = IndexName
            /\ UNCHANGED <<attempt, stage, completed, failedStage>>

\* An attempt of ensure_index_exists raised (logged and re-raised to tenacity).
EnsureRaised ==
    /\ AttemptFailed("ensure_has")
    /\ index' = index
    /\ ensureOutcome' = IF attempt < MaxAttempts THEN ensureOutcome ELSE "RetryError"
    /\ prevEnsure' = prevEnsure

\* Mutant of HasIndex: the existence check always takes the create branch.
HasIndexIgnored == FALSE

\* self.pc.has_index(name=self.config.index_name), when the call succeeds.
HasIndex == indexExists

\* if self.pc.has_index(name): use it; else go on to create it.
EnsureHasIndex ==
    /\ pc = "ensure_has"
    /\ calls' = Bump(calls, "has")
    /\ \E ok \in BOOLEAN :
          IF ~ok
          THEN EnsureRaised /\ UNCHANGED absentAtCall
          ELSE IF HasIndex
               THEN EnsureReturned /\ UNCHANGED absentAtCall
               ELSE /\ pc' = "ensure_create"
                    /\ absentAtCall' = TRUE
                    /\ UNCHANGED <<attempt, result, stage, completed, failedStage,
                                   index, ensureHist>>
    /\ UNCHANGED <<storeVars, quietVars, op, vault, documents, upsertVars,
                   polls, failTimes, upsertGhost, pollOk, timedOut>>

\* self.pc.create_index(...)
EnsureCreateIndex ==
    /\ pc = "ensure_create"
    /\ calls' = Bump(calls, "create")
    /\ \E ok \in BOOLEAN :
          IF ok
          THEN /\ indexExists' = TRUE
               /\ pc' = "wait_ready"
               /\ polls' = 0
               /\ UNCHANGED <<attempt, result, stage, completed, failedStage,
                              index, ensureHist>>
          ELSE /\ EnsureRaised
               /\ UNCHANGED <<indexExists, polls>>
    /\ UNCHANGED <<indexReady, storeIds, storeSrc, quietVars, op, vault, documents,
                   upsertVars, failTimes, upsertGhost, ensureGhost>>

\* _wait_for_index_ready, one turn of the loop: has_index and
\* describe_index_stats on a fresh handle; any exception is swallowed.
WaitPoll ==
    /\ pc = "wait_ready"
    /\ polls < MaxPolls
    /\ calls' = Bump(calls, "poll")
    /\ \E becameReady \in BOOLEAN, ok \in BOOLEAN :
          /\ indexReady' = (indexReady \/ becameReady)
          /\ IF indexReady' /\ ok
             THEN /\ pollOk' = TRUE
                  /\ polls' = polls
                  /\ EnsureReturned
             ELSE /\ polls' = polls + 1
                  /\ UNCHANGED <<ctlVars, index, ensureHist, pollOk>>
    /\ UNCHANGED <<indexExists, storeIds, storeSrc, quietVars, op, vault, documents,
                   upsertVars, failTimes, upsertGhost, absentAtCall, timedOut>>

\* _wait_for_index_ready: raise TimeoutError once max_wait has elapsed.
WaitTimeout ==
    /\ pc = "wait_ready"
    /\ polls = MaxPolls
    /\ timedOut' = TRUE
    /\ EnsureRaised
    /\ UNCHANGED <<storeVars, quietVars, op, vault, documents, upsertVars,
                   polls, calls, failTimes, upsertGhost, pollOk, absentAtCall>>

\* ------------------------------------------------------ upsert_documents
\* Entry of an attempt: the index check, _prepare_vectors, total_batches.
UpsertEntry ==
    /\ pc = "upsert_entry"
    /\ IF index = "None"
       THEN /\ AttemptFailed("upsert_entry")
            /\ UNCHANGED <<upsertVars, failTimes>>
       ELSE /\ vectors' = PrepareVectors(documents)
            /\ total_batches' = TotalBatches(Len(vectors'))
            /\ successful_batches' = 0
            /\ failed_batches' = <<>>
            /\ i' = 0
            /\ pc' = "upsert_loop"
            /\ IF attempt = 1
               THEN \E ft \in [Ids -> 0..MaxAttempts] :
                       /\ \A b \in Ids :
                             b > CeilDiv(Len(vectors'), BatchSize) => ft[b] = 0
                       /\ failTimes' = ft
               ELSE failTimes' = failTimes
            /\ UNCHANGED <<attempt, result, stage, completed, failedStage>>
    /\ UNCHANGED <<storeVars, quietVars, index, op, vault, documents,
                   polls, calls, upsertGhost, ensureGhost, ensureHist>>

\* One turn of the batch loop: self.index.upsert(vectors=batch) inside try/except.
\* The store refuses a batch holding a vector of another length than the index's.
UpsertBatch ==
    /\ pc = "upsert_loop"
    /\ i < Len(vectors)
    /\ LET batch == BatchAt(vectors, i)
           num == BatchNum(i)
           storeOk == /\ \A k \in 1..Len(batch) : batch[k].dim = Dimension
                      /\ tries[num] >= failTimes[num]
           outcome == BatchOutcome(storeOk)
       IN /\ calls' = Bump(calls, "upsert")
          /\ tries' = [tries EXCEPT ![num] = @ + 1]
          /\ sends' = [d \in Ids |-> IF d \in IdsOf(batch) THEN sends[d] + 1 ELSE sends[d]]
          /\ sentDims' = sentDims \cup {batch[k].dim : k \in 1..Len(batch)}
          /\ sentBatches' = Append(sentBatches, batch)
          /\ storeIds' = IF storeOk THEN storeIds \cup IdsOf(batch) ELSE storeIds
          /\ okIds' = IF storeOk THEN okIds \cup IdsOf(batch) ELSE okIds
          /\ storeSrc' = IF storeOk THEN Written(storeSrc, batch) ELSE storeSrc
          /\ upsertResult' = upsertResult
          /\ IF outcome = "raised"
             THEN /\ AttemptFailed("upsert_entry")
                  /\ UNCHANGED <<successful_batches, failed_batches, i>>
             ELSE /\ successful_batches' =
                        IF outcome = "succeeded" THEN successful_batches + 1
                                                 ELSE successful_batches
                  /\ failed_batches' =
                        IF outcome = "caught" THEN Append(failed_batches, num)
                                              ELSE failed_batches
                  /\ i' = i + BatchSize
                  /\ UNCHANGED ctlVars
    /\ UNCHANGED <<indexExists, indexReady, quietVars, index, op, vault,
                   documents, vectors, total_batches, polls, failTimes,
                   ensureGhost, ensureHist>>

\* upsert_documents hands its result to its caller: index_documents goes on
\* to Verify on success and returns False otherwise.
ReturnFromUpsert(success) ==
    /\ upsertResult' = success
    /\ IF op = "index_documents"
       THEN IF AfterUpsert(success) = "Verify"
            THEN /\ pc' = "stats"
                 /\ attempt' = 1
                 /\ stage' = "Verify"
                 /\ completed' = IF success = "True"
                                 THEN Append(completed, "Upsert")
                                 ELSE completed
                 /\ UNCHANGED <<result, failedStage>>
            ELSE /\ pc' = "idle"
                 /\ result' = "False"
                 /\ failedStage' = "Upsert"
                 /\ UNCHANGED <<attempt, stage, completed>>
       ELSE /\ pc' = "idle"
            /\ result' = success
            /\ UNCHANGED <<attempt, stage, completed, failedStage>>

\* Mutant of UpsertReturn: a failed call deletes what its batches wrote.
UpsertReturnRollback ==
    /\ pc = "upsert_loop"
    /\ i >= Len(vectors)
    /\ ReturnFromUpsert(UpsertResult(failed_batches))
    /\ storeIds' = IF failed_batches # <<>> THEN storeIds \ okIds ELSE storeIds
    /\ storeSrc' = [id \in storeIds' |-> storeSrc[id]]
    /\ UNCHANGED <<indexExists, indexReady, quietVars, index, op, vault, documents,
                   upsertVars, polls, calls, failTimes, tries, sends, okIds,
                   sentDims, sentBatches, ensureGhost, ensureHist>>

\* After the loop: False when a batch failed, True otherwise. No store call
\* is made here: what the succeeded batches wrote stays.
UpsertReturn ==
    /\ pc = "upsert_loop"
    /\ i >= Len(vectors)
    /\ ReturnFromUpsert(UpsertResult(failed_batches))
    /\ UNCHANGED <<storeVars, quietVars, index, op, vault, documents,
                   upsertVars, polls, calls, failTimes, tries, sends, okIds,
                   sentDims, sentBatches, ensureGhost, ensureHist>>

\* ------------------------------------------------------- get_index_stats
\* One attempt: the index check, then describe_index_stats (re-raised on failure).
GetIndexStats ==
    /\ pc = "stats"
    /\ IF index = "None"
       THEN /\ AttemptFailed("stats")
            /\ UNCHANGED calls
       ELSE /\ calls' = Bump(calls, "stats")
            /\ \E ok \in BOOLEAN :
                  IF ok
                  THEN /\ pc' = "idle"
                       /\ result' = IF op = "index_documents" THEN "True" ELSE "Stats"
                       /\ completed' = IF op = "index_documents"
                                       THEN Append(completed, "Verify")
                                       ELSE completed
                       /\ UNCHANGED <<attempt, stage, failedStage>>
                  ELSE AttemptFailed("stats")
    /\ UNCHANGED <<storeVars, quietVars, index, op, vault, documents,
                   upsertVars, polls, failTimes, upsertGhost, ensureGhost,
                   ensureHist>>

\* ---------------------------------------------------------------- search
\* Mutant of FormatResults: no match is reported as None.
FormatResultsNoneWhenEmpty(matches) == IF matches = {} THEN "None" ELSE "Matches"

\* formatted_results = [] ... for match in results.get('matches', []): append.
\* "[]" is the empty list, "Matches" a list with one entry per match.
FormatResults(matches) == IF matches = {} THEN "[]" ELSE "Matches"

\* Mutant of SearchCatch: the exception is passed on to the caller.
SearchCatchReraise(exc) == exc

\* search: "except Exception as e: logger.error(...); return []".
SearchCatch(exc) == "[]"

\* index.query(vector, top_k): the top_k nearest of the vectors held, all of
\* them when fewer are held.
QueryAnswers(held, top_k) ==
    {h \in SUBSET held : Cardinality(h) = Min(top_k, Cardinality(held))}

\* SemanticSearchManager.search, the whole try block: the index check, the
\* encoding of the query, index.query, the formatting of the matches. The
\* store refuses a query vector of another length than the index's.
Search ==
    /\ pc = "search"
    /\ pc' = "idle"
    /\ IF index = "None"
       THEN /\ searchError' = "ValueError"
            /\ result' = SearchCatch("ValueError")
            /\ UNCHANGED <<searchHits, calls>>
       ELSE \E encodeOk \in BOOLEAN, queryOk \in BOOLEAN, top_k \in 1..MaxTopK :
               IF ~encodeOk
               THEN /\ searchError' = "EncodeError"
                    /\ result' = SearchCatch("EncodeError")
                    /\ UNCHANGED <<searchHits, calls>>
               ELSE /\ calls' = Bump(calls, "query")
                    /\ IF queryOk /\ modelDim = Dimension
                       THEN \E h \in QueryAnswers(storeIds, top_k) :
                               /\ searchHits' = h
                               /\ searchError' = "none"
                               /\ result' = FormatResults(h)
                       ELSE /\ searchError' = "QueryError"
                            /\ result' = SearchCatch("QueryError")
                            /\ UNCHANGED searchHits
    /\ UNCHANGED <<storeVars, modelDim, built, modelLoad, indexed, heldAtLoad,
                   chunkVars, loaderVars, otherVars, index, op, attempt, stage, completed, failedStage, vault, documents, upsertVars,
                   polls, failTimes, upsertGhost, ensureGhost, ensureHist>>

\* ------------------------------------------------------------------ Next
Next ==
    \/ MainStart
    \/ Construct
    \/ CallSearch
    \/ Search
    \/ CallIndexDocuments
    \/ CallEnsureIndexExists
    \/ CallUpsertDocuments
    \/ CallGetIndexStats
    \/ LoadDocuments
    \/ GenerateEmbeddings
    \/ EnsureHasIndex
    \/ EnsureCreateIndex
    \/ WaitPoll
    \/ WaitTimeout
    \/ UpsertEntry
    \/ UpsertBatch
    \/ UpsertReturn
    \/ GetIndexStats

Spec == Init /\ [][Next]_vars

\* ============================================================ chunk_text
Max(a, b) == IF a > b THEN a ELSE b

\* A slice index of Python: a negative one counts from the end, and either
\* kind is clipped to the text.
SliceIndex(n, x) == IF x < 0 THEN Max(n + x, 0) ELSE Min(x, n)

\* text[a:b] for a text of n characters, as the positions [lo, hi) it takes.
Slice(n, a, b) ==
    [lo |-> SliceIndex(n, a), hi |-> Max(SliceIndex(n, a), SliceIndex(n, b))]

\* Mutant of NextStart: the step is taken backwards.
NextStartBackward(st, cs, ov) == st - (cs - ov)

\* Mutant of NextStart: the next chunk starts where this one's window ends.
NextStartNoOverlap(st, cs, ov) == st + cs

\* start += chunk_size - overlap
NextStart(st, cs, ov) == st + (cs - ov)

\* end = start + chunk_size; text[start:end]
ChunkAt(n, st, cs) == Slice(n, st, st + cs)

\* The manager and the store, left alone while another function is followed.
PipelineOff ==
    /\ indexExists = FALSE
    /\ indexReady = FALSE
    /\ modelDim = Dimension
    /\ PipelineStart

\* The texts chunk_text is called on, by length, with its two parameters;
\* among them the text of 2500 characters with the default parameters.
ChunkInputs ==
    {<<n, cs, ov>> : n \in 0..MaxTextLen, cs \in 1..MaxChunkSize, ov \in 0..MaxOverlap}
        \cup {<<2500, DefaultChunkSize, DefaultOverlap>>}

ChunkInit ==
    /\ PipelineOff
    /\ LoaderOff
    /\ ConfigLoaded
    /\ MetaOff
    /\ \E inp \in ChunkInputs :
          /\ text_len = inp[1]
          /\ chunk_size = inp[2]
          /\ overlap = inp[3]
    /\ chunkStart = 0
    /\ chunks = <<>>
    /\ chunkPc = "loop"

\* One turn of "while start < len(text)".
ChunkStep ==
    /\ chunkPc = "loop"
    /\ chunkStart < text_len
    /\ Len(chunks) < MaxChunks
    /\ chunks' = Append(chunks, ChunkAt(text_len, chunkStart, chunk_size))
    /\ chunkStart' = NextStart(chunkStart, chunk_size, overlap)
    /\ UNCHANGED <<text_len, chunk_size, overlap, chunkPc, pipelineVars, loaderVars, otherVars>>

\* The loop condition fails: return chunks.
ChunkReturn ==
    /\ chunkPc = "loop"
    /\ chunkStart >= text_len
    /\ chunkPc' = "done"
    /\ UNCHANGED <<text_len, chunk_size, overlap, chunkStart, chunks, pipelineVars,
                   loaderVars, otherVars>>

ChunkNext ==
    \/ ChunkStep
    \/ ChunkReturn

ChunkSpec == ChunkInit /\ [][ChunkNext]_vars

\* chunk_text is sequential code: it always takes its next step.
ChunkFairSpec == ChunkInit /\ [][ChunkNext]_vars /\ WF_vars(ChunkNext)

\* =============================================================== loaders
\* chunk_text as a function: the chunks of a text of n characters.
RECURSIVE ChunksFrom(_, _, _, _, _)
ChunksFrom(n, cs, ov, st, acc) ==
    IF st < n /\ Len(acc) < MaxChunks
    THEN ChunksFrom(n, cs, ov, NextStart(st, cs, ov), Append(acc, ChunkAt(n, st, cs)))
    ELSE acc

ChunkText(n, cs, ov) == ChunksFrom(n, cs, ov, 0, <<>>)

\* A file of the vault: its kind, whether it can be read ("badutf8": readable
\* bytes that are not valid UTF-8), and the length of its body, leading and
\* trailing whitespace not counted.
MdFiles ==
    {[ext |-> "md", cond |-> c, len |-> n] : c \in {"ok", "badutf8"}, n \in 0..MaxBodyLen}
        \cup {[ext |-> "md", cond |-> "unreadable", len |-> 0]}

PdfFiles ==
    {[ext |-> "pdf", cond |-> "ok", len |-> n] : n \in {0, MaxBodyLen}}
        \cup {[ext |-> "pdf", cond |-> "unreadable", len |-> 0]}

ImageFiles == {[ext |-> "image", cond |-> "ok", len |-> 0]}

\* load_documents lists *.md; load_obsidian_vault lists .md .txt .pdf .png .jpg .jpeg
FilesOf(kind) ==
    IF kind = "load_documents" THEN MdFiles
    ELSE MdFiles \cup PdfFiles \cup ImageFiles

\* _process_file: content = content[:self.config.max_text_length] when longer.
TruncatedLen(n) == Min(n, MaxTextLength)

\* _process_file(file_path, index): a Document, or None for an empty file and
\* for any exception (both except clauses return None). open(...,
\* errors='replace') reads invalid UTF-8 too.
ProcessFile(f, pos) ==
    IF f.cond = "unreadable" \/ f.len = 0
    THEN <<>>
    ELSE <<[id |-> <<"md", DocId(pos)>>, file |-> pos, lo |-> 0,
            hi |-> TruncatedLen(f.len), type |-> "md"]>>

\* Mutant of ChunkDocs: the counter is not advanced between the chunks of a file.
ChunkDocsSameId(cs, pos, c, type) ==
    [k \in 1..Len(cs) |->
        [id |-> <<type, c>>, file |-> pos, lo |-> cs[k].lo, hi |-> cs[k].hi,
         type |-> type]]

\* The dicts load_obsidian_vault appends for the chunks of one file,
\* numbered on from the counter c.
ChunkDocs(cs, pos, c, type) ==
    [k \in 1..Len(cs) |->
        [id |-> <<type, c + k - 1>>, file |-> pos, lo |-> cs[k].lo, hi |-> cs[k].hi,
         type |-> type]]

\* load_obsidian_vault, the try block for one file: whether it raised, and
\* the docs appended. A text file is opened with encoding="utf-8" (strict),
\* so invalid UTF-8 raises UnicodeDecodeError; an image is not opened at all.
ObsidianFile(f, pos, c) ==
    IF f.ext = "image"
    THEN [raised |-> FALSE,
          docs |-> <<[id |-> <<"image", c>>, file |-> pos, lo |-> 0, hi |-> 0,
                      type |-> "image"]>>]
    ELSE IF f.cond # "ok"
         THEN [raised |-> TRUE, docs |-> <<>>]
         ELSE [raised |-> FALSE,
               docs |-> ChunkDocs(ChunkText(f.len, LoaderChunkSize, LoaderOverlap),
                                  pos, c, IF f.ext = "md" THEN "text" ELSE "pdf")]

\* Mutant of AfterFileError: the exception ends the walk.
AfterFileErrorAbort(pos, n) == n + 1

\* The try/except sits inside the for loop: after an exception the walk goes
\* on with the next file.
AfterFileError(pos, n) == pos + 1

LoaderInit ==
    /\ PipelineOff
    /\ ChunkOff
    /\ ConfigLoaded
    /\ MetaOff
    /\ loaderKind \in {"load_documents", "load_obsidian_vault"}
    /\ supported_files \in SeqsUpTo(FilesOf(loaderKind), MaxFiles)
    /\ filePos = 1
    /\ vaultDocs = <<>>
    /\ doc_id_counter = 1
    /\ failed_files = 0
    /\ loaderPc = "walk"

\* DocumentProcessor.load_documents, one turn of "for i, file_path in
\* enumerate(md_files)": _process_file never raises, so the except clause
\* that appends to failed_files is never entered.
LoadDocumentsFile ==
    /\ loaderPc = "walk"
    /\ loaderKind = "load_documents"
    /\ filePos <= Len(supported_files)
    /\ vaultDocs' = vaultDocs \o ProcessFile(supported_files[filePos], filePos)
    /\ filePos' = filePos + 1
    /\ UNCHANGED <<loaderKind, supported_files, doc_id_counter, failed_files,
                   loaderPc, pipelineVars, chunkVars, otherVars>>

\* load_obsidian_vault, one turn of "for file_path, relative_filename in
\* supported_files".
LoadObsidianFile ==
    /\ loaderPc = "walk"
    /\ loaderKind = "load_obsidian_vault"
    /\ filePos <= Len(supported_files)
    /\ LET out == ObsidianFile(supported_files[filePos], filePos, doc_id_counter)
       IN /\ vaultDocs' = vaultDocs \o out.docs
          /\ doc_id_counter' = doc_id_counter + Len(out.docs)
          /\ filePos' = IF out.raised
                        THEN AfterFileError(filePos, Len(supported_files))
                        ELSE filePos + 1
    /\ UNCHANGED <<loaderKind, supported_files, failed_files, loaderPc,
                   pipelineVars, chunkVars, otherVars>>

\* The walk is over: return documents / return docs.
LoaderReturn ==
    /\ loaderPc = "walk"
    /\ filePos > Len(supported_files)
    /\ loaderPc' = "done"
    /\ UNCHANGED <<loaderKind, supported_files, filePos, vaultDocs, doc_id_counter,
                   failed_files, pipelineVars, chunkVars, otherVars>>

LoaderNext ==
    \/ LoadDocumentsFile
    \/ LoadObsidianFile
    \/ LoaderReturn

LoaderSpec == LoaderInit /\ [][LoaderNext]_vars

\* ================================================================ Config
\* What Config.from_env can find in the environment: the key (empty when
\* PINECONE_API_KEY is not set), DIMENSION, BATCH_SIZE, and whether the
\* expanded VAULT_PATH exists.
EnvInputs ==
    [api_key : {"", "key"},
     dimension : {-1, 0, 1, Dimension},
     batch_size : {0, 1, BatchSize, MaxBatchSize, MaxBatchSize + 1},
     vault_exists : BOOLEAN]

\* Mutant of PostInitRaises: the batch size has no upper limit.
PostInitRaisesNoUpper(e) ==
    \/ e.api_key = ""
    \/ e.dimension <= 0
    \/ e.batch_size <= 0
    \/ ~e.vault_exists

\* Config.__post_init__: the four checks, each raising ValueError.
PostInitRaises(e) ==
    \/ e.api_key = ""
    \/ e.dimension <= 0
    \/ e.batch_size <= 0 \/ e.batch_size > MaxBatchSize
    \/ ~e.vault_exists

ConfigInit ==
    /\ PipelineOff
    /\ ChunkOff
    /\ LoaderOff
    /\ MetaOff
    /\ env \in EnvInputs
    /\ config = <<>>
    /\ cfgPc = "from_env"

\* main: config = Config.from_env(). cls(...) runs __post_init__; a ValueError
\* is caught by main's except clause, which returns 1.
FromEnv ==
    /\ cfgPc = "from_env"
    /\ IF PostInitRaises(env)
       THEN /\ cfgPc' = "exited"
            /\ config' = config
            /\ pc' = "exited"
            /\ result' = "1"
       ELSE /\ cfgPc' = "loaded"
            /\ config' = <<env>>
            /\ UNCHANGED <<pc, result>>
    /\ UNCHANGED <<env, storeVars, modelDim, built, modelLoad, indexed, searchVars,
                   heldAtLoad, index, op, attempt, stage, completed, failedStage,
                   vault, documents, upsertVars, polls, calls, failTimes,
                   upsertGhost, ensureGhost, ensureHist, chunkVars, loaderVars,
                   metaVars>>

ConfigNext ==
    \/ FromEnv
    \/ Construct

ConfigSpec == ConfigInit /\ [][ConfigNext]_vars

\* ============================================== metadata of the vectors
\* The documents handed over: the length of the text and, for
\* _prepare_vectors, whether there is an embedding (upload_documents_to_pinecone
\* reads doc["embedding"] of every document).
MetaDocsFor(kind) ==
    [len : 0..MaxDocText,
     emb : IF kind = "_prepare_vectors" THEN BOOLEAN ELSE {TRUE}]

\* _prepare_vectors: "text": doc.text[:1000]
PreparedText(n) == Min(n, MetadataTextLimit)

\* upload_documents_to_pinecone: "text": doc["text"]
UploaderText(n) == n

MetaInit ==
    /\ PipelineOff
    /\ ChunkOff
    /\ LoaderOff
    /\ ConfigLoaded
    /\ metaKind \in {"_prepare_vectors", "upload_documents_to_pinecone"}
    /\ metaDocs \in SeqsUpTo(MetaDocsFor(metaKind), MaxMetaDocs)
    /\ metaVectors = <<>>
    /\ metaPos = 1
    /\ metaPc = "prepare"

\* PineconeManager._prepare_vectors, one turn of "for doc in documents".
PrepareVectorsDoc ==
    /\ metaPc = "prepare"
    /\ metaKind = "_prepare_vectors"
    /\ metaPos <= Len(metaDocs)
    /\ metaVectors' =
          IF ~metaDocs[metaPos].emb THEN metaVectors
          ELSE Append(metaVectors,
                      [doc |-> metaPos, text |-> PreparedText(metaDocs[metaPos].len)])
    /\ metaPos' = metaPos + 1
    /\ UNCHANGED <<metaKind, metaDocs, metaPc, pipelineVars, chunkVars, loaderVars,
                   configVars>>

\* upload_documents_to_pinecone, one turn of "for doc in documents".
UploaderVectorDoc ==
    /\ metaPc = "prepare"
    /\ metaKind = "upload_documents_to_pinecone"
    /\ metaPos <= Len(metaDocs)
    /\ metaVectors' =
          Append(metaVectors,
                 [doc |-> metaPos, text |-> UploaderText(metaDocs[metaPos].len)])
    /\ metaPos' = metaPos + 1
    /\ UNCHANGED <<metaKind, metaDocs, metaPc, pipelineVars, chunkVars, loaderVars,
                   configVars>>

\* The prepared vectors are passed to index.upsert, batch by batch.
MetaUpsert ==
    /\ metaPc = "prepare"
    /\ metaPos > Len(metaDocs)
    /\ metaPc' = "upserted"
    /\ UNCHANGED <<metaKind, metaDocs, metaVectors, metaPos, pipelineVars, chunkVars,
                   loaderVars, configVars>>

MetaNext ==
    \/ PrepareVectorsDoc
    \/ UploaderVectorDoc
    \/ MetaUpsert

MetaSpec == MetaInit /\ [][MetaNext]_vars

\* ================================================================ claims
\* upsert_documents ran its batch loop to the end in the current call.
UpsertFinished == upsertResult # "none"

NumBatches == CeilDiv(Len(vectors), BatchSize)

BatchIds(b) == IdsOf(SubSeq(vectors, (b - 1) * BatchSize + 1,
                            Min(b * BatchSize, Len(vectors))))

IsPrefix(s, t) == Len(s) <= Len(t) /\ \A k \in 1..Len(s) : s[k] = t[k]

\* C1: in index_documents the stages run in the order Load, Embed,
\* EnsureIndex, Upsert, Verify, each one only after the one before completed:
\* the stage being run is the one after the completed stages, the store gets
\* no ensure call before Load and Embed completed, no upsert call before
\* ensure_index_exists returned the index handle, and no verifying
\* describe_index_stats call before upsert_documents returned True.
C1_StagesInOrder ==
    op = "index_documents" =>
        /\ IsPrefix(completed, StageOrder)
        /\ stage = StageOrder[Min(Len(completed) + 1, Len(StageOrder))]
        /\ (calls.has > 0 \/ calls.create > 0 \/ calls.poll > 0) => Len(completed) >= 2
        /\ calls.upsert > 0 => (Len(completed) >= 3 /\ ensureOutcome = IndexName
                                /\ index = IndexName)
        /\ calls.stats > 0 => (Len(completed) >= 4 /\ upsertResult = "True")

C1_Witness ==
    /\ op = "index_documents"
    /\ pc = "idle"
    /\ result = "True"
    /\ completed = StageOrder
    /\ calls.create > 0
    /\ calls.upsert >= 2
    /\ calls.stats > 0

\* C2: a failing stage of index_documents ends the call with False: the
\* caller gets True or False and never an exception, the failed stage is the
\* last one that ran, and the store calls of the later stages were not made.
C2_FailureReturnsFalse ==
    (op = "index_documents" /\ pc = "idle") =>
        /\ result \in {"True", "False"}
        /\ failedStage # "none" => (result = "False" /\ stage = failedStage)
        /\ failedStage \in {"Load", "Embed"} => calls = NoCalls
        /\ failedStage = "EnsureIndex" => (calls.upsert = 0 /\ calls.stats = 0)
        /\ failedStage = "Upsert" => calls.stats = 0
        /\ result = "True" => (failedStage = "none" /\ completed = StageOrder)

C2_Witness ==
    /\ op = "index_documents"
    /\ pc = "idle"
    /\ failedStage = "Verify"
    /\ result = "False"
    /\ calls.stats = MaxAttempts

\* C3: when exactly one batch fails N times with 0 < N < 3 and would then
\* succeed, and nothing else fails, upsert_documents ends with that batch in
\* the store and returns True.
C3_TransientBatchRetried ==
    \A b \in 1..NumBatches :
        ( /\ UpsertFinished
          /\ failTimes[b] \in 1..(MaxAttempts - 1)
          /\ \A c \in (1..NumBatches) \ {b} : failTimes[c] = 0
          /\ \A k \in 1..Len(vectors) : vectors[k].dim = Dimension )
        => (upsertResult = "True" /\ BatchIds(b) \subseteq storeIds)

\* C4: during one call of upsert_documents, retries included, a vector whose
\* batch was accepted by the store has been sent to the store exactly once.
C4_SucceededBatchSentOnce ==
    \A d \in okIds : sends[d] = 1

C4_Witness ==
    /\ UpsertFinished
    /\ failed_batches # <<>>
    /\ okIds # {}
    /\ \A d \in okIds : sends[d] = 1
    /\ calls.upsert >= 2

\* C5: when the batch loop has finished, successful_batches plus the number
\* of failed batches is total_batches, and both count the store's upsert calls.
C5_BatchCountsAddUp ==
    UpsertFinished =>
        /\ successful_batches + Len(failed_batches) = total_batches
        /\ total_batches = calls.upsert

C5_Witness ==
    /\ UpsertFinished
    /\ Len(vectors) % BatchSize # 0
    /\ Len(vectors) > BatchSize
    /\ successful_batches > 0
    /\ failed_batches # <<>>

\* C6: upsert_documents returns True exactly when the store accepted the
\* upsert call of every batch, and False when some batch ended failed.
C6_SuccessIffAllBatches ==
    UpsertFinished =>
        /\ upsertResult \in {"True", "False"}
        /\ (upsertResult = "True") <=> (IdsOf(vectors) \subseteq okIds)
        /\ (\E b \in 1..NumBatches : ~(BatchIds(b) \subseteq okIds))
              => upsertResult = "False"

C6_Witness ==
    /\ UpsertFinished
    /\ upsertResult = "False"
    /\ NumBatches = 2
    /\ BatchIds(1) \subseteq okIds
    /\ ~(BatchIds(2) \subseteq okIds)

\* C7: no step of the pipeline removes an id from the store, and what the
\* succeeded batches of a call wrote is in the store, also after the call
\* returned failure.
C7_StoreOnlyGrows ==
    [][storeIds \subseteq storeIds' /\ okIds' \subseteq storeIds']_vars

C7_Witness ==
    /\ pc = "idle"
    /\ upsertResult = "False"
    /\ okIds # {}
    /\ okIds \subseteq storeIds
    /\ storeIds # okIds

\* C8: every vector passed to the store's upsert has exactly Dimension
\* components (a longer embedding is rejected before the store is called).
C8_OnlyConfiguredDimensionSent ==
    sentDims \subseteq {Dimension}

\* C9 as stated: two calls of ensure_index_exists that both return the handle
\* make at most one create_index call between them.
C9_AtMostOneCreateInTotal ==
    (prevEnsure.outcome = IndexName /\ ensureOutcome = IndexName)
        => prevEnsure.creates + calls.create <= 1

\* C9 as amended: once a call of ensure_index_exists has returned the handle,
\* a later call makes no create_index call and, when it returns, returns the
\* handle of the same named index; the earlier call made at most 3 creates.
C9_SecondCallCreatesNothing ==
    prevEnsure.outcome = IndexName =>
        /\ calls.create = 0
        /\ prevEnsure.creates <= MaxAttempts
        /\ ensureOutcome = IndexName => index = prevEnsure.outcome
        /\ (op = "ensure_index_exists" /\ pc = "idle" /\ ensureOutcome = IndexName)
              => result = prevEnsure.outcome

C9_Witness ==
    /\ op = "ensure_index_exists"
    /\ pc = "idle"
    /\ prevEnsure.outcome = IndexName
    /\ prevEnsure.creates = 2
    /\ ensureOutcome = IndexName
    /\ result = IndexName
    /\ calls.has > 0

\* C10: a call of ensure_index_exists that found the index absent and whose
\* readiness wait ran out ends with a timeout error for its caller, and it
\* returns the handle only when a readiness poll succeeded.
C10_TimeoutSurfaces ==
    /\ (op = "ensure_index_exists" /\ pc = "idle" /\ timedOut)
          => result = "TimeoutError"
    /\ (absentAtCall /\ ensureOutcome = IndexName) => pollOk

\* The id-to-file association a list of documents stands for.
AssocOf(docs) ==
    [id \in IdsOf(docs) |-> docs[CHOOSE k \in 1..Len(docs) : docs[k].id = id].src]

\* C11: a run of index_documents over a vault of which the store already holds
\* vectors from an earlier run (for all of its documents, or for part of them)
\* never leaves two vectors for one file, and when it returns True the store
\* holds exactly one vector per document under the document's id, which is
\* also what a single complete run into an empty store leaves.
C11_RerunOverwrites ==
    op = "index_documents" =>
        /\ heldAtLoad \in {"part", "all"} =>
              \A a \in storeIds, b \in storeIds : storeSrc[a] = storeSrc[b] => a = b
        /\ (heldAtLoad \in {"nothing", "part", "all"} /\ pc = "idle" /\ result = "True")
              => (storeSrc = AssocOf(documents) /\ storeIds = IdsOf(documents))

C11_Witness ==
    /\ op = "index_documents"
    /\ pc = "idle"
    /\ result = "True"
    /\ heldAtLoad = "part"
    /\ Len(documents) >= 2
    /\ calls.upsert >= 2
    /\ \A k \in 1..Len(documents) : sends[documents[k].id] = 1

\* C12: on a manager constructed anew on which index_documents was never
\* called, a search whose encoding and query calls do not fail, against a
\* store holding vectors, returns the store's matches and not the empty list.
C12_SearchWithoutIndexing ==
    (/\ op = "search" /\ pc = "idle"
     /\ ~indexed
     /\ storeIds # {}
     /\ modelDim = Dimension
     /\ searchError \notin {"EncodeError", "QueryError"})
        => (result = "Matches" /\ searchHits # {})

\* C13: a search on a manager holding the index handle, against a store
\* holding no vector, returns the empty list and never an error; when its
\* query was answered, the answer had no match.
C13_EmptyIndexGivesEmptyList ==
    (op = "search" /\ pc = "idle" /\ index # "None" /\ storeIds = {}) =>
        /\ result = "[]"
        /\ searchHits = {}

C13_Witness ==
    /\ op = "search"
    /\ pc = "idle"
    /\ index = IndexName
    /\ storeIds = {}
    /\ calls.query = 1
    /\ searchError = "none"
    /\ result = "[]"

\* C14: when the encoding of the query or the store's query call raises
\* during a search, the caller of search receives that error, not a list.
C14_SearchFailurePropagates ==
    (op = "search" /\ pc = "idle" /\ searchError \in {"EncodeError", "QueryError"})
        => result = searchError

\* C20: when the model load raises, the run of main ends there: the Pinecone
\* client was not created, the manager holds no index handle, and no
\* has_index, create_index, poll, upsert, query or stats call is made.
C20_ModelLoadFailureBeforeStore ==
    modelLoad = "raised" =>
        /\ "PineconeManager" \notin built
        /\ pc = "exited"
        /\ result = "1"
        /\ index = "None"
        /\ calls = NoCalls

C20_Witness ==
    /\ modelLoad = "raised"
    /\ built = {"DocumentProcessor"}
    /\ pc = "exited"
    /\ storeIds # {}

\* C15: chunk_text on a text of 2500 characters with chunk_size 1000 and
\* overlap 200 returns exactly the three slices [0:1000], [800:1800] and
\* [1600:2500].
C15_ExampleGivesThreeChunks ==
    (chunkPc = "done" /\ text_len = 2500 /\ chunk_size = 1000 /\ overlap = 200) =>
        chunks = <<[lo |-> 0, hi |-> 1000], [lo |-> 800, hi |-> 1800],
                   [lo |-> 1600, hi |-> 2500]>>

\* The characters two slices have in common.
Shared(a, b) == Max(Min(a.hi, b.hi) - Max(a.lo, b.lo), 0)

\* C16: for chunk_size > overlap >= 0, every chunk chunk_text returns has at
\* most chunk_size characters and every two consecutive chunks, the last pair
\* included, have exactly overlap characters in common.
C16_ChunksBoundedAndOverlapping ==
    (chunkPc = "done" /\ chunk_size > overlap) =>
        /\ \A k \in 1..Len(chunks) : chunks[k].hi - chunks[k].lo <= chunk_size
        /\ \A k \in 1..(Len(chunks) - 1) : Shared(chunks[k], chunks[k + 1]) = overlap

\* The documents a loader produced from the file at place p of the listing.
DocsOfFile(p) == {k \in 1..Len(vaultDocs) : vaultDocs[k].file = p}

\* The loader read the body of the file: load_documents replaces invalid
\* UTF-8, load_obsidian_vault decodes strictly.
ReadOk(f) ==
    /\ f.ext # "image"
    /\ IF loaderKind = "load_documents" THEN f.cond # "unreadable" ELSE f.cond = "ok"

\* Reading the file fails in the loader.
ReadFails(f) == f.ext # "image" /\ ~ReadOk(f)

\* C17: after a load, every character of the body of every file that was
\* read lies in the text of at least one document produced from that file,
\* bodies longer than max_text_length included.
C17_NoContentDropped ==
    loaderPc = "done" =>
        \A p \in 1..Len(supported_files) :
            ReadOk(supported_files[p]) =>
                \A c \in 0..(supported_files[p].len - 1) :
                    \E k \in DocsOfFile(p) : vaultDocs[k].lo <= c /\ c < vaultDocs[k].hi

\* C18: after a load, whatever the places of the files that failed to read,
\* every file was processed: a failed file has no document, and every file
\* that was read with a body that is not empty, and every image, has one.
C18_FailingFileDoesNotAbort ==
    loaderPc = "done" =>
        \A p \in 1..Len(supported_files) :
            LET f == supported_files[p]
            IN /\ ReadFails(f) => DocsOfFile(p) = {}
               /\ (f.ext = "image" \/ (ReadOk(f) /\ f.len > 0)) => DocsOfFile(p) # {}

C18_Witness ==
    /\ loaderPc = "done"
    /\ loaderKind = "load_obsidian_vault"
    /\ Len(supported_files) = 3
    /\ ReadFails(supported_files[1])
    /\ ReadFails(supported_files[2])
    /\ supported_files[3].ext = "md"
    /\ supported_files[3].len > LoaderChunkSize
    /\ Cardinality(DocsOfFile(3)) >= 2

\* C19: after a load, every text file with invalid UTF-8 and a body that is
\* not empty has a document, and in load_documents the failed count is the
\* number of unreadable files and found files = documents + failed files.
C19_InvalidUtf8LoadedAndCounted ==
    loaderPc = "done" =>
        /\ \A p \in 1..Len(supported_files) :
              LET f == supported_files[p]
              IN (f.ext = "md" /\ f.cond = "badutf8" /\ f.len > 0) => DocsOfFile(p) # {}
        /\ loaderKind = "load_documents" =>
              /\ failed_files =
                    Cardinality({p \in 1..Len(supported_files) :
                                    supported_files[p].cond = "unreadable"})
              /\ Len(supported_files) = Len(vaultDocs) + failed_files

\* C21: a call of upsert_documents or get_index_stats on a manager that holds
\* no index handle (a failure no retry can cure) fails on its first attempt:
\* no second attempt is made.
C21_NonRetryableFailsAtOnce ==
    (op \in {"upsert_documents", "get_index_stats"} /\ index = "None") => attempt = 1

\* C22: a call makes at most 3 attempts, hence at most 3 has_index, 3
\* create_index and 3 stats calls, and a call of ensure_index_exists or
\* get_index_stats ends either with the value of an attempt that succeeded
\* or, all attempts having failed, with RetryError: never with a normal
\* return after the last attempt failed.
C22_RetriesBounded ==
    /\ attempt <= MaxAttempts
    /\ calls.has <= MaxAttempts
    /\ calls.create <= MaxAttempts
    /\ calls.stats <= MaxAttempts
    /\ (op = "ensure_index_exists" /\ pc = "idle") =>
          /\ result \in {IndexName, "RetryError"}
          /\ result = ensureOutcome
          /\ result = "RetryError" => attempt = MaxAttempts
    /\ (op = "get_index_stats" /\ pc = "idle") =>
          /\ result \in {"Stats", "RetryError"}
          /\ result = "RetryError" => attempt = MaxAttempts

C22_Witness ==
    /\ op = "ensure_index_exists"
    /\ pc = "idle"
    /\ result = "RetryError"
    /\ attempt = MaxAttempts
    /\ calls.create = MaxAttempts

\* C23: when load_documents returns no document, index_documents ends with
\* an outcome that main does not take for a failure (main goes on to return
\* 0), and no store call has been made.
C23_EmptyCorpusNotAFailure ==
    (op = "index_documents" /\ pc = "idle" /\ documents = <<>> /\ failedStage = "none")
        => (MainExitCode(result) = 0 /\ calls = NoCalls)

\* The batches of a call, one after the other.
Flatten(bs) ==
    LET F[k \in 0..Len(bs)] == IF k = 0 THEN <<>> ELSE F[k - 1] \o bs[k]
    IN F[Len(bs)]

\* C26: the batches upsert_documents passes to the store are consecutive
\* slices of the prepared vectors: joined in call order they are the vectors
\* sent so far and, when the loop is over, all the vectors; each batch is one
\* upsert call, none is empty, all but the last have batch_size vectors, and
\* there are ceil(n / batch_size) of them.
C26_BatchesPartitionVectors ==
    /\ pc = "upsert_loop" =>
          Flatten(sentBatches) = SubSeq(vectors, 1, Min(i, Len(vectors)))
    /\ UpsertFinished =>
          /\ Flatten(sentBatches) = vectors
          /\ Len(sentBatches) = CeilDiv(Len(vectors), BatchSize)
          /\ calls.upsert = Len(sentBatches)
          /\ \A k \in 1..Len(sentBatches) :
                /\ Len(sentBatches[k]) >= 1
                /\ Len(sentBatches[k]) <= BatchSize
                /\ k < Len(sentBatches) => Len(sentBatches[k]) = BatchSize

C26_Witness ==
    /\ UpsertFinished
    /\ Len(vectors) = MaxDocs
    /\ Len(sentBatches) >= 2
    /\ Len(sentBatches[Len(sentBatches)]) < BatchSize

\* The ids of the documents that have an embedding, in the order of the list.
EmbeddedIds(docs) ==
    LET F[k \in 0..Len(docs)] ==
            IF k = 0 THEN <<>>
            ELSE IF docs[k].emb # 0 THEN Append(F[k - 1], docs[k].id) ELSE F[k - 1]
    IN F[Len(docs)]

\* C30: the vectors upsert_documents sends are exactly the documents that
\* have an embedding, in input order, and a document left out is no failure:
\* the call returns True whenever no batch failed, however few vectors were
\* sent (none at all included), and index_documents then goes on to Verify.
C30_DocsWithoutEmbeddingOmitted ==
    UpsertFinished =>
        /\ [k \in 1..Len(vectors) |-> vectors[k].id] = EmbeddedIds(documents)
        /\ [k \in 1..Len(Flatten(sentBatches)) |-> Flatten(sentBatches)[k].id]
              = EmbeddedIds(documents)
        /\ failed_batches = <<>> => upsertResult = "True"
        /\ (op = "upsert_documents" /\ pc = "idle") => result = upsertResult
        /\ (op = "index_documents" /\ upsertResult = "True" /\ pc # "idle")
              => stage = "Verify"

C30_Witness ==
    /\ op = "upsert_documents"
    /\ pc = "idle"
    /\ result = "True"
    /\ Len(documents) >= 2
    /\ vectors = <<>>
    /\ calls.upsert = 0
    /\ storeIds = {}

\* C27: at every point of a load, no two of the documents produced so far
\* have the same id, whatever files were skipped or failed.
C27_IdsUnique ==
    \A j \in 1..Len(vaultDocs), k \in 1..Len(vaultDocs) :
        vaultDocs[j].id = vaultDocs[k].id => j = k

C27_Witness ==
    /\ loaderPc = "done"
    /\ loaderKind = "load_obsidian_vault"
    /\ Len(supported_files) = 3
    /\ ReadFails(supported_files[1])
    /\ Cardinality(DocsOfFile(2)) >= 2
    /\ supported_files[3].ext = "image"
    /\ Len(vaultDocs) >= 3

\* C28: chunk_text returns exactly when the text is empty or chunk_size >
\* overlap. With chunk_size > overlap every turn of the loop moves start
\* forward and the loop ends; for a text that is not empty with overlap >=
\* chunk_size, start never gets past the start of the text and the function
\* never returns.
C28_TerminatesIffAdvancing ==
    /\ []((text_len > 0 /\ overlap >= chunk_size) =>
             (chunkPc # "done" /\ chunkStart <= 0 /\ chunkStart < text_len))
    /\ [][(chunk_size > overlap /\ chunks' # chunks) => chunkStart' > chunkStart]_vars
    /\ ((chunkPc = "loop" /\ (text_len = 0 \/ chunk_size > overlap))
            ~> (chunkPc = "done"))

C28_Witness ==
    /\ chunkPc = "loop"
    /\ text_len > 0
    /\ overlap > chunk_size
    /\ chunkStart < 0
    /\ Len(chunks) = MaxChunks

\* C29: for chunk_size > overlap >= 0 the chunks returned are, in order, the
\* slices starting at 0, step, 2*step, ... (step = chunk_size - overlap), each
\* chunk_size long or cut by the end of the text; none is empty, every
\* character of the text lies in one of them, and there are
\* ceil(len(text) / step) of them.
C29_ChunksCoverText ==
    (chunkPc = "done" /\ chunk_size > overlap /\ overlap >= 0) =>
        LET step == chunk_size - overlap
        IN /\ Len(chunks) = CeilDiv(text_len, step)
           /\ \A k \in 1..Len(chunks) :
                 /\ chunks[k].lo = (k - 1) * step
                 /\ chunks[k].hi = Min(chunks[k].lo + chunk_size, text_len)
                 /\ chunks[k].hi > chunks[k].lo
           /\ \A c \in 0..(text_len - 1) :
                 \E k \in 1..Len(chunks) : chunks[k].lo <= c /\ c < chunks[k].hi

C29_Witness ==
    /\ chunkPc = "done"
    /\ overlap > 0
    /\ chunk_size > overlap + 1
    /\ Len(chunks) >= 3
    /\ chunks[Len(chunks)].hi - chunks[Len(chunks)].lo < chunk_size
    /\ chunks[Len(chunks) - 1].hi - chunks[Len(chunks) - 1].lo = chunk_size

\* A configuration the claim names as invalid: the API key is empty, the
\* dimension is not positive, the batch size is outside [1,100], or the vault
\* path does not exist.
C24_Violates(e) ==
    \/ e.api_key = ""
    \/ e.dimension < 1
    \/ e.batch_size \notin 1..100
    \/ ~e.vault_exists

\* C24: constructing a Config from an environment that breaks one of the four
\* conditions ends main with an error (exit code 1) before any component is
\* built, any model is loaded or any call on the store is made; and no built
\* component ever holds a Config that breaks one of them.
C24_InvalidConfigFailsFast ==
    /\ (cfgPc # "from_env" /\ C24_Violates(env)) =>
          /\ cfgPc = "exited"
          /\ result = "1"
          /\ config = <<>>
          /\ built = {}
          /\ modelLoad = "none"
          /\ calls = NoCalls
    /\ built # {} => (config # <<>> /\ ~C24_Violates(config[1]))

\* Config.from_env has raised for a batch size of 101 with everything else in
\* order, and nothing was built.
C24_Witness ==
    /\ cfgPc = "exited"
    /\ env.api_key # "" /\ env.dimension > 0 /\ env.vault_exists
    /\ env.batch_size = MaxBatchSize + 1
    /\ built = {}
    /\ modelLoad = "none"

\* C25: every vector passed to the store carries a metadata text of at most
\* the limit (1000 characters), whatever the length of the document's text.
C25_MetadataTextBounded ==
    metaPc = "upserted" =>
        \A k \in 1..Len(metaVectors) : metaVectors[k].text <= MetadataTextLimit
====
